---- MODULE Spec2Model ----
(***************************************************************************)
(* Model of github.com/rom8726/di: the Container (provider registry,       *)
(* singleton cache, cycle guard, creation-order list) of src/di.go and     *)
(* src/provider.go, and the App lifecycle orchestrator of src/di.go.       *)
(*                                                                         *)
(* A Resolve call is modelled step by step with an explicit call stack of  *)
(* buildInstance frames, so that the in-progress set and the providers     *)
(* that are mid-construction are visible in the states. One step runs the  *)
(* code from one call of a lookup or of a constructor to the next.         *)
(***************************************************************************)
EXTENDS Integers, Sequences, FiniteSets, TLC

VARIABLES
    providers,      \* Container.providers: sequence of registered constructors
    pargs,          \* Provider.args of every constructor: type -> override value
    instances,      \* Container.instances: type -> cached value
    instancesList,  \* Container.instancesList: every instance built, in order
    resolvedMap,    \* Container.resolvedMap: produced types under construction
    mu,             \* Container.mu: TRUE while locked
    stack,          \* buildInstance frames of the running Resolve (last = top)
    out,            \* the last call made and its outcome
    ev,             \* the resolution that returned a value in the last step
    ninv,           \* number of constructor invocations so far
    first,          \* descriptor -> value of its first successful resolution
    cyc,            \* constructors on a cycle met by the call that out names
    invoked,        \* constructors invoked by the call that out names
    nres,           \* number of Resolve calls made
    nargs,          \* number of Arg calls made
    appOp,          \* the App pass that is running: "idle", "Start" or "Stop"
    services,       \* App.Start / App.Stop: the local slice services
    idx,            \* position in services of the pass's loop
    pc,             \* where the pass is: "loop", "launched" or "blocked" (in select)
    woken,          \* the case that woke the blocked select: "none", "ctx", "ch"
    spawned,        \* the goroutines launched that did not call Start / Stop yet
    running,        \* the Start / Stop calls that did not return yet
    ch,             \* the channel of the current withTimeout: "none" or a result
    ctx,            \* the context the pass was called with
    perr,           \* the local err of the pass
    appOut,         \* the last pass that returned, and what it returned
    startLog,       \* instances whose Start the running/last pass invoked, in order
    stopLog,        \* instances whose Stop the running/last pass invoked, in order
    callLog,        \* what the bounded calls of the running/last pass returned
    expiredEarly,   \* the deadline expired before some service's task completed
    npass,          \* number of calls of Start, Stop and Run made
    ext,            \* App.Run: the context it was called with
    runPh,          \* App.Run: "none", "start", "wait", "stopFail", "stopOk"
    runErr,         \* App.Run: the error of its Start
    runOut,         \* the last Run that returned, and what it returned
    hold,           \* ResolveToStruct: the target struct, the loop index, the fields
    sres,           \* what the last ResolveToStruct returned
    nstr,           \* number of ResolveToStruct calls made
    thr             \* concurrent callers: where each is in its Provide or Resolve

cvars == <<providers, pargs, instances, instancesList, resolvedMap, mu, stack,
           out, ev, ninv, first, cyc, invoked, nres, nargs>>

avars == <<appOp, services, idx, pc, woken, spawned, running, ch, ctx, perr, appOut,
           startLog, stopLog, callLog, expiredEarly, npass, ext, runPh, runErr, runOut>>

svars == <<hold, sres, nstr>>

kvars == <<thr>>

vars == <<cvars, avars, svars, kvars>>

----------------------------------------------------------------------------
(* Bounds of the model *)

MaxProviders == 3
MaxResolves == 2
MaxArgCalls == 1
MaxInstances == 3
MaxPasses == 2
MaxStructs == 1
MaxCallers == 2

----------------------------------------------------------------------------
(* Types (reflect.Type descriptors) and their method sets *)

IfaceTypes == {"IA", "IB", "AS1", "AS2", "AS3", "AP"}
PtrTypes == {"pA", "pB", "pC", "pM1", "pM2", "pM3", "pP"}
Types == IfaceTypes \cup PtrTypes \cup {"str"}

\* the types of the slots a caller passes to Resolve
Targets == {"IA", "IB", "pA", "pB", "pC"}

\* reflect.Type.Kind
Kind(t) == IF t \in IfaceTypes THEN "Interface" ELSE IF t = "str" THEN "String" ELSE "Ptr"

\* method set of a type
Methods(t) ==
    CASE t = "pA" -> {"a"}
      [] t = "pB" -> {"b"}
      [] t = "pC" -> {"c"}
      [] t = "IA" -> {"a"}
      [] t = "IB" -> {"b"}
      [] t = "AS1" -> {"Do1"}
      [] t = "AS2" -> {"Do2"}
      [] t = "AS3" -> {"Do3"}
      [] t = "AP" -> {"Do0"}
      [] t = "pM1" -> {"Do1", "Start", "Stop"}
      [] t = "pM2" -> {"Do2", "Start", "Stop"}
      [] t = "pM3" -> {"Do3", "Start", "Stop"}
      [] t = "pP" -> {"Do0"}
      [] OTHER -> {}

\* reflect.Type.Implements(u) panics when u is not an interface type
ImplementsPanics(t, u) == Kind(u) # "Interface"

\* reflect.Type.Implements(u), for an interface type u
Implements(t, u) == Methods(u) \subseteq Methods(t)

\* reflect.Type.AssignableTo(u): identical types, or u is an interface t implements
AssignableTo(t, u) == t = u \/ (Kind(u) = "Interface" /\ Implements(t, u))

----------------------------------------------------------------------------
(* Constructors that a caller may pass to Provide *)

CtorNames == {"NewA", "NewAs", "NewAcyc", "NewB", "NewBself", "NewC", "NewIB"}

\* the constructors of an application's services: func() AppService1 and the
\* like, each returning a mock with Start and Stop, and one returning a
\* value without them
ServiceCtors == {"NewS1", "NewS2", "NewS3", "NewPlain"}

\* values of other shapes: a value that is no function, func() with no
\* result, func() (*A, *B, error), and func() (*C, bool)
ShapeCtors == {"NotFunc", "NewNone", "NewThree", "NewFlag"}

\* constructors of services that take other services: func(AppService1)
\* AppService2 and func(AppService1, AppService2) AppService3
GraphCtors == {"NewD2", "NewD3"}

AllCtors == CtorNames \cup ServiceCtors \cup ShapeCtors \cup GraphCtors

\* ctorType.Kind()
CtorKind(c) == IF c = "NotFunc" THEN "Struct" ELSE "Func"

\* ctorType.Out(0)
CtorRet(c) ==
    CASE c \in {"NewA", "NewAs", "NewAcyc"} -> "pA"
      [] c \in {"NewB", "NewBself"} -> "pB"
      [] c = "NewC" -> "pC"
      [] c = "NewIB" -> "IB"
      [] c = "NewS1" -> "AS1"
      [] c \in {"NewS2", "NewD2"} -> "AS2"
      [] c \in {"NewS3", "NewD3"} -> "AS3"
      [] c = "NewPlain" -> "AP"
      [] c = "NewThree" -> "pA"
      [] c = "NewFlag" -> "pC"

\* ctorType.In(0..NumIn-1)
CtorParams(c) ==
    CASE c = "NewA" -> <<>>
      [] c = "NewAs" -> <<"str">>
      [] c = "NewAcyc" -> <<"IB">>
      [] c = "NewB" -> <<"IA">>
      [] c = "NewBself" -> <<"IB">>
      [] c = "NewC" -> <<"pA", "IB">>
      [] c = "NewD2" -> <<"AS1">>
      [] c = "NewD3" -> <<"AS1", "AS2">>
      [] OTHER -> <<>>

\* dynamic type of the value the constructor returns
CtorDyn(c) ==
    CASE c = "NewIB" -> "pB"
      [] c = "NewS1" -> "pM1"
      [] c \in {"NewS2", "NewD2"} -> "pM2"
      [] c \in {"NewS3", "NewD3"} -> "pM3"
      [] c = "NewPlain" -> "pP"
      [] OTHER -> CtorRet(c)

\* ctorType.NumOut(): the constructors that also return an error
CtorNumOut(c) ==
    CASE c \in {"NewAs", "NewB", "NewFlag"} -> 2
      [] c = "NewThree" -> 3
      [] c \in {"NewNone", "NotFunc"} -> 0
      [] OTHER -> 1

\* the type of the second result is error
CtorOutError(c) == c \in {"NewAs", "NewB"}

----------------------------------------------------------------------------
(* Values *)

NoVal == [src |-> "none", id |-> 0]
Inst(n) == [src |-> "inst", id |-> n]         \* n-th entry of instancesList
ArgVal(k) == [src |-> "arg", id |-> k]        \* a value made by the caller

\* the values a caller passes to Arg: a string and a *A built by hand
ArgValues == {ArgVal(1), ArgVal(2)}

\* reflect.TypeOf(arg)
ArgTypeOf(v) == IF v.id = 1 THEN "str" ELSE "pA"

NoArgs == [t \in Types |-> NoVal]

----------------------------------------------------------------------------
(* Results and frames *)

NoRes == [kind |-> "none", val |-> NoVal, name |-> "", ctx |-> <<>>]
Ok(v) == [kind |-> "ok", val |-> v, name |-> "", ctx |-> <<>>]
Err(k, n) == [kind |-> k, val |-> NoVal, name |-> n, ctx |-> <<>>]

NoEv == [k |-> "none", t |-> "", val |-> NoVal, inv |-> 0]
Resolved(t, v, n) == [k |-> "resolved", t |-> t, val |-> v, inv |-> n]

\* a running buildInstance(p), called by the lookup of descriptor t: the next
\* parameter i, the arguments assembled so far, and the number of constructor
\* invocations made before the lookup was entered
Frame(p, t) == [p |-> p, t |-> t, i |-> 1, args |-> <<>>, n0 |-> ninv]

Top == stack[Len(stack)]
Pop(s) == SubSeq(s, 1, Len(s) - 1)

----------------------------------------------------------------------------
(* Container: New, Provide, Arg *)

\* New()
New ==
    /\ providers = <<>>
    /\ pargs = [c \in AllCtors |-> NoArgs]
    /\ instances = [t \in Types |-> NoVal]
    /\ instancesList = <<>>
    /\ resolvedMap = {}
    /\ mu = FALSE
    /\ stack = <<>>
    /\ out = [op |-> "New", t |-> "", res |-> NoRes]
    /\ ev = NoEv
    /\ ninv = 0
    /\ first = [t \in Types |-> NoVal]
    /\ cyc = {}
    /\ invoked = {}
    /\ nres = 0
    /\ nargs = 0

\* Provide without its duplicate check
Duplicate_Unchecked(c) == FALSE

\* the duplicate check of Provide
Duplicate(c) == \E i \in 1..Len(providers) : CtorRet(providers[i]) = CtorRet(c)

\* the shape check of newProvider
ShapeOK(c) ==
    /\ CtorKind(c) = "Func"
    /\ CtorNumOut(c) >= 1
    /\ CtorNumOut(c) <= 2

\* c.mu.Lock() returning at once
LockFree_Always == TRUE

\* c.mu.Lock() returns when no caller holds the lock
LockFree == ~mu

\* Provide(constructor) under the lock: newProvider (panic on a wrong shape),
\* duplicate check (panic), append
ProvideBody(c) ==
    /\ IF ~ShapeOK(c)
       THEN /\ out' = [op |-> "Provide", t |-> "", res |-> Err("panic", c)]
            /\ UNCHANGED <<providers, pargs>>
       ELSE IF Duplicate(c)
       THEN /\ out' = [op |-> "Provide", t |-> "", res |-> Err("panic", CtorRet(c))]
            /\ UNCHANGED <<providers, pargs>>
       ELSE /\ Len(providers) < MaxProviders
            /\ providers' = Append(providers, c)
            /\ pargs' = [pargs EXCEPT ![c] = NoArgs]
            /\ out' = [op |-> "Provide", t |-> "", res |-> Ok(NoVal)]
    /\ ev' = NoEv
    /\ cyc' = {}
    /\ invoked' = {}
    /\ UNCHANGED <<instances, instancesList, resolvedMap, stack, ninv,
                   first, nres, nargs>>

\* Provide(constructor) by a caller alone: Lock, the body, the deferred Unlock
Provide(c) ==
    /\ LockFree
    /\ ProvideBody(c)
    /\ UNCHANGED mu

Registered == {providers[i] : i \in 1..Len(providers)}

\* Provider.Arg(arg): p.args[reflect.TypeOf(arg)] = reflect.ValueOf(arg).
\* The callers chain it to Provide, c.Provide(ctor).Arg(v), so it acts on the
\* provider registered last, before anything else is done with the container,
\* and the value they bind is one that some parameter of the constructor takes.
Arg(c, v) ==
    /\ ~mu
    /\ \E i \in 1..Len(CtorParams(c)) : AssignableTo(ArgTypeOf(v), CtorParams(c)[i])
    /\ providers # <<>>
    /\ c = providers[Len(providers)]
    /\ out.op \in {"Provide", "Arg"}
    /\ out.res.kind = "ok"
    /\ nargs < MaxArgCalls
    /\ nargs' = nargs + 1
    /\ pargs' = [pargs EXCEPT ![c][ArgTypeOf(v)] = v]
    /\ out' = [op |-> "Arg", t |-> "", res |-> Ok(NoVal)]
    /\ ev' = NoEv
    /\ cyc' = {}
    /\ invoked' = {}
    /\ UNCHANGED <<providers, instances, instancesList, resolvedMap, mu, stack,
                   ninv, first, nres>>

----------------------------------------------------------------------------
(* Container: the lookups *)

\* what the provider loop of a lookup does with constructor c for descriptor t:
\* getInstanceByInterface tests Implements; getInstanceByType tests
\* AssignableTo || (Kind() == Interface && Implements), and Implements panics
\* on a descriptor that is no interface
Probe(mode, c, t) ==
    IF mode = "iface"
    THEN IF Implements(CtorRet(c), t) THEN "match" ELSE "skip"
    ELSE IF AssignableTo(CtorRet(c), t) THEN "match"
         ELSE IF Kind(CtorRet(c)) # "Interface" THEN "skip"
         ELSE IF ImplementsPanics(CtorRet(c), t) THEN "panic"
         ELSE IF Implements(CtorRet(c), t) THEN "match" ELSE "skip"

\* a loop over c.providers that keeps the last match
FirstHit_Last(mode, t) ==
    LET hits == {i \in 1..Len(providers) : Probe(mode, providers[i], t) # "skip"}
    IN IF hits = {} THEN 0 ELSE CHOOSE i \in hits : \A j \in hits : i >= j

\* index of the provider at which the loop over c.providers ends (0: it runs
\* to the end without a match)
FirstHit(mode, t) ==
    LET hits == {i \in 1..Len(providers) : Probe(mode, providers[i], t) # "skip"}
    IN IF hits = {} THEN 0 ELSE CHOOSE i \in hits : \A j \in hits : i <= j

\* a lookup that never consults the cache
Cached_Never(t) == FALSE

\* the cache test at the head of both lookups
Cached(t) == instances[t] # NoVal

\* buildInstance without its cycle test
InProgress_Unchecked(p) == FALSE

\* the cycle test at the head of buildInstance
InProgress(p) == CtorRet(p) \in resolvedMap

\* getInstanceByInterface (mode "iface") or getInstanceByType (mode "type") of
\* descriptor t, up to its return or to the marking in buildInstance:
\* "hit" (cached), "none" (no provider), "panic", "cycle", or "build" (p is to
\* be constructed)
Lookup(mode, t) ==
    LET h == FirstHit(mode, t)
    IN IF Cached(t) THEN [kind |-> "hit", p |-> ""]
       ELSE IF h = 0 THEN [kind |-> "none", p |-> ""]
       ELSE IF Probe(mode, providers[h], t) = "panic" THEN [kind |-> "panic", p |-> ""]
       ELSE IF InProgress(providers[h]) THEN [kind |-> "cycle", p |-> providers[h]]
       ELSE [kind |-> "build", p |-> providers[h]]

\* the provider a lookup of t selects, "" when it selects none
Selected(mode, t) ==
    LET h == FirstHit(mode, t)
    IN IF Cached(t) \/ h = 0 \/ Probe(mode, providers[h], t) # "match" THEN ""
       ELSE providers[h]

\* constructors of the frames of s
OnStack(s) == {s[j].p : j \in 1..Len(s)}

\* constructors from the frame of p to the top of the stack
CycleMembers(p) ==
    LET at == {j \in 1..Len(stack) : stack[j].p = p}
    IN IF at = {} THEN {}
       ELSE LET j0 == CHOOSE j \in at : \A j2 \in at : j <= j2
            IN {stack[j].p : j \in j0..Len(stack)}

\* buildInstance without its deferred delete
Release_Never(s) == resolvedMap

\* the deferred delete(c.resolvedMap, p.returnType) of every frame of s
Release(s) == resolvedMap \ {CtorRet(s[j].p) : j \in 1..Len(s)}

\* fmt.Errorf("%w [constructor: %s]", err, p.name) in every frame of s, from
\* the top down
RECURSIVE WrapAll(_, _)
WrapAll(r, s) ==
    IF s = <<>> THEN r
    ELSE WrapAll([r EXCEPT !.ctx = Append(@, s[Len(s)].p)], Pop(s))

\* first successful resolution of a descriptor
NoteFirst(t, v) == IF first[t] = NoVal THEN [first EXCEPT ![t] = v] ELSE first

\* an error (or a panic) leaves the lookup: every frame of s returns it with
\* its provider's name added, the deferred deletes run, Resolve returns it
\* and its deferred Unlock runs
Fail(r, s) ==
    /\ out' = [out EXCEPT !.res = WrapAll(r, s)]
    /\ resolvedMap' = Release(stack)
    /\ stack' = <<>>
    /\ mu' = FALSE
    /\ ev' = NoEv

\* the lookup of t returns value v, after n constructor invocations, to the
\* frames s that wait for it: the top
\* frame stores the argument, or, with no frame left, Resolve sets the slot
\* and its deferred Unlock runs
Return(t, v, n, s) ==
    /\ ev' = Resolved(t, v, n)
    /\ first' = NoteFirst(t, v)
    /\ IF s = <<>>
       THEN /\ stack' = <<>>
            /\ out' = [out EXCEPT !.res = Ok(v)]
            /\ mu' = FALSE
       ELSE /\ stack' = [s EXCEPT ![Len(s)].i = @ + 1,
                                  ![Len(s)].args = Append(@, v)]
            /\ UNCHANGED <<out, mu>>

\* a lookup of t called with the frames of the stack waiting for it
Call(mode, t) ==
    LET l == Lookup(mode, t)
        p == Selected(mode, t)
    IN /\ cyc' = IF p # "" /\ p \in OnStack(stack) THEN CycleMembers(p) ELSE cyc
       /\ CASE l.kind = "hit" ->
                 /\ Return(t, instances[t], 0, stack)
                 /\ UNCHANGED resolvedMap
            [] l.kind = "none" ->
                 /\ Fail(Err("noProvider", t), stack)
                 /\ UNCHANGED first
            [] l.kind = "panic" ->
                 /\ Fail(Err("panic", t), <<>>)
                 /\ UNCHANGED first
            [] l.kind = "cycle" ->
                 /\ Fail(Err("cycle", l.p), stack)
                 /\ UNCHANGED first
            [] l.kind = "build" ->
                 /\ resolvedMap' = resolvedMap \cup {CtorRet(l.p)}
                 /\ stack' = Append(stack, Frame(l.p, t))
                 /\ ev' = NoEv
                 /\ UNCHANGED <<out, mu, first>>

----------------------------------------------------------------------------
(* Container: Resolve and buildInstance *)

\* Resolve(target): lock, dispatch on the kind of the target slot, and the
\* lookup up to its return or to the first constructor it is to build
ResolveCall(t) ==
    /\ LockFree
    /\ LET start == [op |-> "Resolve", t |-> t, res |-> NoRes]
           l == Lookup(IF Kind(t) = "Interface" THEN "iface" ELSE "type", t)
       IN CASE l.kind = "hit" ->
                 /\ out' = [start EXCEPT !.res = Ok(instances[t])]
                 /\ ev' = Resolved(t, instances[t], 0)
                 /\ first' = NoteFirst(t, instances[t])
                 /\ UNCHANGED <<mu, stack, resolvedMap>>
            [] l.kind \in {"none", "panic"} ->
                 /\ out' = [start EXCEPT !.res =
                               Err(IF l.kind = "none" THEN "noProvider" ELSE "panic", t)]
                 /\ ev' = NoEv
                 /\ UNCHANGED <<mu, stack, resolvedMap, first>>
            [] l.kind = "cycle" ->
                 /\ out' = [start EXCEPT !.res = Err("cycle", l.p)]
                 /\ ev' = NoEv
                 /\ UNCHANGED <<mu, stack, resolvedMap, first>>
            [] l.kind = "build" ->
                 /\ out' = start
                 /\ mu' = TRUE
                 /\ resolvedMap' = resolvedMap \cup {CtorRet(l.p)}
                 /\ stack' = <<Frame(l.p, t)>>
                 /\ ev' = NoEv
                 /\ UNCHANGED first
    /\ cyc' = {}
    /\ invoked' = {}
    /\ UNCHANGED <<providers, pargs, instances, instancesList, ninv, nargs>>

\* Resolve(target), called by the user
Resolve(t) ==
    /\ nres < MaxResolves
    /\ nres' = nres + 1
    /\ ResolveCall(t)

\* buildInstance ignoring the overrides
HasOverride_Ignored(p, pt) == FALSE

\* the override test of buildInstance: p.args[pt]
HasOverride(p, pt) == pargs[p][pt] # NoVal

\* buildInstance, one turn of the loop over p.paramTypes: an override is
\* taken from p.args, any other parameter is resolved by type
BuildParam ==
    /\ stack # <<>>
    /\ Top.i <= Len(CtorParams(Top.p))
    /\ LET pt == CtorParams(Top.p)[Top.i]
       IN IF HasOverride(Top.p, pt)
          THEN /\ stack' = [stack EXCEPT ![Len(stack)].i = @ + 1,
                                         ![Len(stack)].args = Append(@, pargs[Top.p][pt])]
               /\ ev' = NoEv
               /\ UNCHANGED <<resolvedMap, out, mu, first, cyc>>
          ELSE Call("type", pt)
    /\ UNCHANGED <<providers, pargs, instances, instancesList, ninv, invoked,
                   nres, nargs>>

\* a lookup that returns the instance it built without caching it
Store_Skip(t, inst) == instances

\* c.instances[t] = inst in the lookup that called buildInstance
Store(t, inst) == [instances EXCEPT ![t] = inst]

\* initFunc: out[1].Interface() of a second result whose type is no
\* interface is never nil, and err.(error) panics for it
AssertionPanics(c) == CtorNumOut(c) = 2 /\ ~CtorOutError(c)

\* buildInstance from p.initFunc(args) to its return, and the lookup that
\* called it caching the instance under the descriptor it was asked for
BuildInvoke(succeeds) ==
    /\ stack # <<>>
    /\ Top.i > Len(CtorParams(Top.p))
    /\ succeeds \/ CtorNumOut(Top.p) = 2
    /\ ninv' = ninv + 1
    /\ invoked' = invoked \cup {Top.p}
    /\ IF AssertionPanics(Top.p)
       THEN /\ Fail(Err("panic", Top.p), <<>>)
            /\ UNCHANGED <<instancesList, instances, first>>
       ELSE IF succeeds
       THEN LET inst == Inst(Len(instancesList) + 1)
            IN /\ instancesList' = Append(instancesList, [ctor |-> Top.p, args |-> Top.args])
               /\ instances' = Store(Top.t, inst)
               /\ resolvedMap' = Release(<<Top>>)
               /\ Return(Top.t, inst, ninv + 1 - Top.n0, Pop(stack))
       ELSE /\ Fail(Err("ctorErr", Top.p), Pop(stack))
            /\ UNCHANGED <<instancesList, instances, first>>
    /\ UNCHANGED <<providers, pargs, cyc, nres, nargs>>

----------------------------------------------------------------------------
(* Container: ResolveToStruct *)

\* the struct types whose address a caller passes to ResolveToStruct
Structs == {"Holder", "Pair"}

\* elemType.Field(i): name and declared type; set is fieldValue.CanSet(), false
\* for an unexported field
Fields(h) ==
    IF h = "Holder"
    THEN << [name |-> "A", type |-> "pA", set |-> TRUE],
            [name |-> "b", type |-> "pB", set |-> FALSE],
            [name |-> "B", type |-> "IB", set |-> TRUE],
            [name |-> "C", type |-> "pC", set |-> TRUE] >>
    ELSE << [name |-> "C", type |-> "pC", set |-> TRUE],
            [name |-> "A", type |-> "IA", set |-> TRUE] >>

\* no ResolveToStruct was called
NoStruct ==
    /\ hold = [s |-> "", ph |-> "idle", i |-> 1, vals |-> <<>>]
    /\ sres = [kind |-> "none", field |-> ""]
    /\ nstr = 0

\* the loop of ResolveToStruct from index i on: the first settable field, or
\* past the end
NextField(h, i) ==
    LET rest == {j \in i..Len(Fields(h)) : Fields(h)[j].set}
    IN IF rest = {} THEN Len(Fields(h)) + 1 ELSE CHOOSE j \in rest : \A j2 \in rest : j <= j2

\* the loop arrives at index i: it returns nil past the last field, or is
\* about to call Resolve for field i
Advance(h, vals, i) ==
    IF i > Len(Fields(h))
    THEN /\ hold' = [s |-> h, ph |-> "done", i |-> i, vals |-> vals]
         /\ sres' = [kind |-> "ok", field |-> ""]
    ELSE /\ hold' = [s |-> h, ph |-> "call", i |-> i, vals |-> vals]
         /\ sres' = [kind |-> "none", field |-> ""]

\* ResolveToStruct(&h) with h a zero struct: up to the first call of Resolve
ResolveToStruct(h) ==
    /\ ~mu
    /\ hold.ph \in {"idle", "done"}
    /\ nstr < MaxStructs
    /\ nstr' = nstr + 1
    /\ Advance(h, [j \in 1..Len(Fields(h)) |-> NoVal], NextField(h, 1))
    /\ UNCHANGED cvars

\* ResolveToStruct: c.Resolve(fieldValuePtr) is called for the field
FieldCall ==
    /\ hold.ph = "call"
    /\ ResolveCall(Fields(hold.s)[hold.i].type)
    /\ hold' = [hold EXCEPT !.ph = "wait"]
    /\ UNCHANGED <<sres, nstr, nres>>

\* ResolveToStruct: c.Resolve returned; the field holds what Resolve set; an
\* error is returned with the name of the field, a panic goes through
FieldReturn ==
    /\ hold.ph = "wait"
    /\ ~mu
    /\ out.res.kind # "none"
    /\ CASE out.res.kind = "ok" ->
              Advance(hold.s, [hold.vals EXCEPT ![hold.i] = out.res.val],
                      NextField(hold.s, hold.i + 1))
         [] out.res.kind = "panic" ->
              /\ hold' = [hold EXCEPT !.ph = "done"]
              /\ sres' = [kind |-> "panic", field |-> ""]
         [] OTHER ->
              /\ hold' = [hold EXCEPT !.ph = "done"]
              /\ sres' = [kind |-> "error", field |-> Fields(hold.s)[hold.i].name]
    /\ UNCHANGED <<cvars, nstr>>

----------------------------------------------------------------------------
(* Container: concurrent callers *)

\* the goroutines that call Provide and Resolve on one Container
Callers == 1..MaxCallers

\* what the concurrent callers register and ask for
ConcCtors == {"NewA", "NewB"}
ConcTargets == {"IA", "IB"}

\* no caller is in a call
NoCallers == thr = [k \in Callers |-> [pc |-> "idle", op |-> "", a |-> ""]]

\* the callers that are between c.mu.Lock() and the deferred c.mu.Unlock()
Inside == {k \in Callers : thr[k].pc = "in"}

\* caller k calls Provide(c) or Resolve(&target of type a): it arrives at
\* c.mu.Lock()
CallOp(k, op, a) ==
    /\ thr[k].pc = "idle"
    /\ op = "Resolve" => nres < MaxResolves
    /\ thr' = [thr EXCEPT ![k] = [pc |-> "lock", op |-> op, a |-> a]]
    /\ UNCHANGED cvars

\* caller k leaves its call when the deferred Unlock has run
Left(k) == thr' = [thr EXCEPT ![k].pc = IF mu' THEN "in" ELSE "idle"]

\* Provide of caller k: c.mu.Lock() returns
ProvideLock(k) ==
    /\ thr[k].pc = "lock"
    /\ thr[k].op = "Provide"
    /\ LockFree
    /\ mu' = TRUE
    /\ thr' = [thr EXCEPT ![k].pc = "in"]
    /\ UNCHANGED <<providers, pargs, instances, instancesList, resolvedMap, stack,
                   out, ev, ninv, first, cyc, invoked, nres, nargs>>

\* Provide of caller k: the body and the deferred Unlock
ProvideRun(k) ==
    /\ thr[k].pc = "in"
    /\ thr[k].op = "Provide"
    /\ ProvideBody(thr[k].a)
    /\ mu' = FALSE
    /\ Left(k)

\* Resolve of caller k: c.mu.Lock() returns, and Resolve runs to the first
\* constructor's buildInstance or to its return
ResolveLock(k) ==
    /\ thr[k].pc = "lock"
    /\ thr[k].op = "Resolve"
    /\ Resolve(thr[k].a)
    /\ Left(k)

\* Resolve of caller k: the next parameter of the constructor on top
ResolveParam(k) ==
    /\ thr[k].pc = "in"
    /\ thr[k].op = "Resolve"
    /\ BuildParam
    /\ Left(k)

\* Resolve of caller k: the constructor on top is invoked
ResolveInvoke(k, succeeds) ==
    /\ thr[k].pc = "in"
    /\ thr[k].op = "Resolve"
    /\ BuildInvoke(succeeds)
    /\ Left(k)

----------------------------------------------------------------------------
(* App: the lifecycle orchestrator *)

\* the contexts a caller passes: context.Background(), one with a deadline,
\* one with a cancel function
CtxKinds == {"background", "deadline", "cancel"}

\* DefaultStartTimeout, DefaultStopTimeout: 30 * time.Second
DefaultStartTimeout == 30
DefaultStopTimeout == 30

\* app.startTimeout and app.stopTimeout of NewApp(container)
startTimeout == DefaultStartTimeout
stopTimeout == DefaultStopTimeout

\* a context a caller made: it ends by itself (timer: its deadline expires or
\* its cancel function is called) unless it is context.Background(); par tells
\* that it is, or descends from, the context Run was called with
Caller(kind) == [kind |-> kind, err |-> "nil", par |-> FALSE, timer |-> kind # "background"]

\* context.Background()
Background == Caller("background")

\* the context Run was called with
External == [kind |-> ext.kind, err |-> ext.err, par |-> TRUE, timer |-> FALSE]

\* context.WithTimeout(parent, d): done when its timer fires or parent is done
WithTimeout(parent) ==
    [kind |-> "deadline", err |-> parent.err, par |-> parent.par, timer |-> TRUE]

\* ctx.Err() of a context of this kind that ended by itself
ErrOf(kind) == IF kind = "deadline" THEN "DeadlineExceeded" ELSE "Canceled"

\* NewApp(container): no pass is running
NewApp ==
    /\ appOp = "idle"
    /\ services = <<>>
    /\ idx = 1
    /\ pc = "loop"
    /\ woken = "none"
    /\ spawned = {}
    /\ running = {}
    /\ ch = "none"
    /\ ctx = Caller("background")
    /\ perr = "nil"
    /\ appOut = [op |-> "none", res |-> "nil"]
    /\ ext = [kind |-> "background", err |-> "nil"]
    /\ runPh = "none"
    /\ runErr = "nil"
    /\ runOut = [via |-> "none", res |-> "nil"]
    /\ startLog = <<>>
    /\ stopLog = <<>>
    /\ callLog = <<>>
    /\ expiredEarly = FALSE
    /\ npass = 0

\* instance.(Servicer): the dynamic type has Start and Stop
IsServicer(e) == {"Start", "Stop"} \subseteq Methods(CtorDyn(e.ctor))

RECURSIVE Filter(_, _)
\* the Servicers among instancesList[1..n], in list order
Filter(l, n) ==
    IF n = 0 THEN <<>>
    ELSE IF IsServicer(l[n]) THEN Append(Filter(l, n - 1), n) ELSE Filter(l, n - 1)

Reverse(q) == [j \in 1..Len(q) |-> q[Len(q) + 1 - j]]

\* App.Start: the loop that collects the services, first to last
StartOrder == Filter(instancesList, Len(instancesList))

\* App.Stop collecting the services first to last
StopOrder_Forward == Filter(instancesList, Len(instancesList))

\* App.Stop: the loop that collects the services, last to first
StopOrder == Reverse(Filter(instancesList, Len(instancesList)))

\* a pass begins: Start(c) or Stop(c) up to its second loop; of the
\* goroutines that earlier passes left behind, which send to channels nobody
\* reads, those of kept are followed further
BeginPass(op, order, c, kept) ==
    /\ appOp = "idle"
    /\ appOp' = op
    /\ services' = order
    /\ idx' = 1
    /\ pc' = "loop"
    /\ woken' = "none"
    /\ ch' = "none"
    /\ ctx' = c
    /\ perr' = "nil"
    /\ callLog' = <<>>
    /\ expiredEarly' = FALSE
    /\ spawned' = spawned \cap kept
    /\ running' = running \cap kept

\* a pass begins in a call of its own: the goroutines that earlier passes
\* left behind are followed no further
Begin(op, order, c) == BeginPass(op, order, c, {})

\* a caller calls a method of the App: what the calls before it returned and
\* logged is forgotten
Enter ==
    /\ runPh = "none"
    /\ npass < MaxPasses
    /\ npass' = npass + 1
    /\ appOut' = [op |-> "none", res |-> "nil"]
    /\ runOut' = [via |-> "none", res |-> "nil"]
    /\ runErr' = "nil"
    /\ startLog' = <<>>
    /\ stopLog' = <<>>

\* App.Start(ctx), called by the user
Start(kind) ==
    /\ Enter
    /\ Begin("Start", StartOrder, Caller(kind))
    /\ ext' = [kind |-> "background", err |-> "nil"]
    /\ UNCHANGED runPh

\* App.Stop(ctx), called by the user
Stop(kind) ==
    /\ Enter
    /\ Begin("Stop", StopOrder, Caller(kind))
    /\ ext' = [kind |-> "background", err |-> "nil"]
    /\ UNCHANGED runPh

\* a Start loop that goes on after a failure
LoopContinues_NoBreak == idx <= Len(services)

\* a Stop loop that ends at the first failure
LoopContinues_Break == idx <= Len(services) /\ perr = "nil"

\* the loop over services is not over: Start breaks at the first error
LoopContinues == idx <= Len(services) /\ (appOp = "Stop" \/ perr = "nil")

\* the task the current withTimeout launched
CurTask == [pass |-> npass, inst |-> services[idx], op |-> appOp]

\* withTimeout: ch := make(chan error, 1) and the go statement
Launch ==
    /\ appOp # "idle"
    /\ pc = "loop"
    /\ LoopContinues
    /\ pc' = "launched"
    /\ ch' = "none"
    /\ spawned' = spawned \cup {CurTask}
    /\ UNCHANGED <<appOp, services, idx, woken, running, ctx, perr, appOut,
                   startLog, stopLog, callLog, expiredEarly, npass, ext, runPh, runErr, runOut>>

\* what the loop does with the error e that withTimeout returned: Start keeps
\* it and breaks, Stop keeps the first one and goes on
AfterCall(e) ==
    /\ callLog' = Append(callLog, [inst |-> services[idx], res |-> e])
    /\ perr' = IF appOp = "Start" THEN e ELSE IF perr = "nil" THEN e ELSE perr
    /\ idx' = idx + 1
    /\ pc' = "loop"
    /\ woken' = "none"
    /\ ch' = "none"

\* the cases of the select that can proceed
Ready == (IF ctx.err # "nil" THEN {"ctx"} ELSE {}) \cup (IF ch # "none" THEN {"ch"} ELSE {})

\* a select that takes ctx.Done() whenever it can proceed
SelectCases_CtxFirst == IF ctx.err # "nil" THEN {"ctx"} ELSE Ready

\* the cases the select may take when it is entered: any one that can proceed
SelectCases == Ready

\* case <-ctx.Done(): return ctx.Err();  case err := <-ch: return err
CaseResult(c) == IF c = "ctx" THEN ctx.err ELSE ch

\* withTimeout: the select is entered; it takes a case that can proceed, or
\* blocks when none can
Select ==
    /\ pc = "launched"
    /\ IF SelectCases = {}
       THEN /\ pc' = "blocked"
            /\ UNCHANGED <<idx, woken, ch, perr, callLog>>
       ELSE \E c \in SelectCases : AfterCall(CaseResult(c))
    /\ UNCHANGED <<appOp, services, spawned, running, ctx, appOut, startLog,
                   stopLog, expiredEarly, npass, ext, runPh, runErr, runOut>>

\* withTimeout: the blocked select is woken by the case that proceeded first
Wake ==
    /\ pc = "blocked"
    /\ woken # "none"
    /\ AfterCall(CaseResult(woken))
    /\ UNCHANGED <<appOp, services, spawned, running, ctx, appOut, startLog,
                   stopLog, expiredEarly, npass, ext, runPh, runErr, runOut>>

\* what a service's Start or Stop may return: nil, an error of its own, or
\* ctx.Err() once the context is done
TaskResults == {"nil", "err"} \cup (IF ctx.err # "nil" THEN {ctx.err} ELSE {})

\* the withTimeout that launched t is still in its select
Awaited(t) == appOp # "idle" /\ pc \in {"launched", "blocked"} /\ t = CurTask

\* the goroutine of t is scheduled and calls fn(ctx): the Start or the Stop of
\* its service is invoked
TaskBegins(t) ==
    /\ t \in spawned
    /\ spawned' = spawned \ {t}
    /\ running' = running \cup {t}
    /\ IF t.pass # npass
       THEN UNCHANGED <<startLog, stopLog>>
       ELSE IF t.op = "Start"
       THEN startLog' = Append(startLog, t.inst) /\ UNCHANGED stopLog
       ELSE stopLog' = Append(stopLog, t.inst) /\ UNCHANGED startLog
    /\ UNCHANGED <<appOp, services, idx, pc, woken, ch, ctx, perr, appOut,
                   callLog, expiredEarly, npass, ext, runPh, runErr, runOut>>

\* a service's Start or Stop returns r in its goroutine, which sends it to
\* the channel of its withTimeout; nobody reads the channel of a withTimeout
\* that returned, so what an abandoned task returns is not told apart
TaskReturns(t, r) ==
    /\ t \in running
    /\ r \in TaskResults
    /\ Awaited(t) \/ r = "nil"
    /\ running' = running \ {t}
    /\ IF Awaited(t)
       THEN /\ ch' = r
            /\ woken' = IF pc = "blocked" /\ woken = "none" THEN "ch" ELSE woken
       ELSE UNCHANGED <<ch, woken>>
    /\ UNCHANGED <<appOp, services, idx, pc, spawned, ctx, perr, appOut, startLog,
                   stopLog, callLog, expiredEarly, npass, ext, runPh, runErr, runOut>>

\* the context of the withTimeout calls ends with error e: a blocked select
\* is woken
Expire(e) ==
    /\ ctx' = [ctx EXCEPT !.err = e]
    /\ woken' = IF pc = "blocked" /\ woken = "none" THEN "ctx" ELSE woken
    /\ expiredEarly' = /\ e = "DeadlineExceeded"
                       /\ \/ pc \in {"launched", "blocked"} /\ ch = "none"
                          \/ pc = "loop" /\ LoopContinues

\* the context of the pass ends by itself: its deadline expires or its cancel
\* function is called
CtxDone ==
    /\ appOp # "idle"
    /\ ctx.timer
    /\ ctx.err = "nil"
    /\ Expire(ErrOf(ctx.kind))
    /\ UNCHANGED <<appOp, services, idx, pc, spawned, running, ch, perr, appOut,
                   startLog, stopLog, callLog, npass, ext, runPh, runErr, runOut>>

\* the switch that ends App.Start
StartResult == perr

\* the switch that ends App.Stop: a deadline error is logged and nil returned
StopResult == IF perr = "DeadlineExceeded" THEN "nil" ELSE perr

\* the pass returns
PassReturn ==
    /\ appOp # "idle"
    /\ pc = "loop"
    /\ ~LoopContinues
    /\ appOut' = [op |-> appOp, res |-> IF appOp = "Start" THEN StartResult ELSE StopResult]
    /\ appOp' = "idle"
    /\ UNCHANGED <<services, idx, pc, woken, spawned, running, ch, ctx, perr,
                   startLog, stopLog, callLog, expiredEarly, npass, ext, runPh, runErr, runOut>>

----------------------------------------------------------------------------
(* App.Run *)

\* runStart: the context Start is called with
runStart(parent) == IF startTimeout > 0 THEN WithTimeout(parent) ELSE parent

\* runStop: the context Stop is called with
runStop(parent) == IF stopTimeout > 0 THEN WithTimeout(parent) ELSE parent

\* Run(ctx): runStart(ctx) up to the second loop of Start
Run(kind) ==
    /\ Enter
    /\ ext' = [kind |-> kind, err |-> "nil"]
    /\ runPh' = "start"
    /\ Begin("Start", StartOrder,
             runStart([kind |-> kind, err |-> "nil", par |-> TRUE, timer |-> FALSE]))

\* the parent of the context of the Stop that follows a failed Start:
\* app.runStop(ctx)
StopParentAfterFailure == External

\* Run passing the context it was called with to the last runStop
StopParentAfterDone_External == External

\* the parent of the context of the Stop that follows <-ctx.Done():
\* app.runStop(context.Background())
StopParentAfterDone == Background

\* the goroutines of the Start pass of this Run that withTimeout left behind
Abandoned == {t \in spawned \cup running : t.op = "Start" /\ t.pass = npass}

\* Run: runStart returned; with an error, runStop is called at once; without,
\* Run waits for ctx.Done(); of the goroutines that Start left behind, those
\* of kept are followed into the Stop pass
RunAfterStartWith(kept) ==
    /\ runPh = "start"
    /\ appOp = "idle"
    /\ runErr' = appOut.res
    /\ IF appOut.res # "nil"
       THEN /\ runPh' = "stopFail"
            /\ BeginPass("Stop", StopOrder, runStop(StopParentAfterFailure), kept)
       ELSE /\ runPh' = "wait"
            /\ UNCHANGED <<appOp, services, idx, pc, woken, spawned, running, ch,
                           ctx, perr, callLog, expiredEarly>>
    /\ UNCHANGED <<appOut, startLog, stopLog, npass, ext, runOut>>

\* Run after runStart, the goroutines that Start left behind followed no
\* further
RunAfterStart == RunAfterStartWith({})

\* Run after runStart, the goroutines that Start left behind still followed
RunAfterStartFollowed == RunAfterStartWith(Abandoned)

\* Run: <-ctx.Done() returns and runStop is called
RunStop ==
    /\ runPh = "wait"
    /\ ext.err # "nil"
    /\ runPh' = "stopOk"
    /\ Begin("Stop", StopOrder, runStop(StopParentAfterDone))
    /\ UNCHANGED <<appOut, startLog, stopLog, npass, ext, runErr, runOut>>

\* Run returning what its Stop returned after a failed Start
FailedRunResult_OfStop == appOut.res

\* what Run returns after a failed Start: return err
FailedRunResult == runErr

\* Run returns: the error of Start when Start failed, else what Stop returned
RunReturn ==
    /\ runPh \in {"stopFail", "stopOk"}
    /\ appOp = "idle"
    /\ runOut' = [via |-> runPh,
                  res |-> IF runPh = "stopFail" THEN FailedRunResult ELSE appOut.res]
    /\ runPh' = "none"
    /\ UNCHANGED <<appOp, services, idx, pc, woken, spawned, running, ch, ctx, perr,
                   appOut, startLog, stopLog, callLog, expiredEarly, npass, ext,
                   runErr>>

\* the context Run was called with ends: the contexts derived from it end
\* with it
ExtDone ==
    /\ runPh # "none"
    /\ ext.kind # "background"
    /\ ext.err = "nil"
    /\ ext' = [ext EXCEPT !.err = ErrOf(ext.kind)]
    /\ IF appOp # "idle" /\ ctx.par /\ ctx.err = "nil"
       THEN Expire(ErrOf(ext.kind))
       ELSE UNCHANGED <<ctx, woken, expiredEarly>>
    /\ UNCHANGED <<appOp, services, idx, pc, spawned, running, ch, perr, appOut,
                   startLog, stopLog, callLog, npass, runPh, runErr, runOut>>

----------------------------------------------------------------------------
(* Specifications *)

Init == New /\ NewApp /\ NoStruct /\ NoCallers

Next ==
    \/ \E c \in CtorNames : Provide(c) /\ UNCHANGED <<avars, svars, kvars>>
    \/ \E c \in CtorNames, v \in ArgValues : Arg(c, v) /\ UNCHANGED <<avars, svars, kvars>>
    \/ \E t \in Targets : Resolve(t) /\ UNCHANGED <<avars, svars, kvars>>
    \/ BuildParam /\ UNCHANGED <<avars, svars, kvars>>
    \/ \E s \in BOOLEAN : BuildInvoke(s) /\ UNCHANGED <<avars, svars, kvars>>

\* the Container: registration and resolution
Spec == Init /\ [][Next]_vars

\* the lists of distinct elements of S of length n
RECURSIVE Lists(_, _)
Lists(S, n) ==
    IF n = 0 THEN {<<>>}
    ELSE {Append(q, x) : q \in Lists(S, n - 1), x \in S} \cap
         {q \in Seq(S) : \A i, j \in 1..Len(q) : q[i] = q[j] => i = j}

\* a Container in which the constructors of q were provided and then
\* resolved, each through its produced type, in the order of q
Wired(q) ==
    /\ providers = q
    /\ pargs = [c \in AllCtors |-> NoArgs]
    /\ instancesList = [i \in 1..Len(q) |-> [ctor |-> q[i], args |-> <<>>]]
    /\ instances = [t \in Types |->
          IF \E i \in 1..Len(q) : CtorRet(q[i]) = t
          THEN Inst(CHOOSE i \in 1..Len(q) : CtorRet(q[i]) = t) ELSE NoVal]
    /\ first = instances
    /\ resolvedMap = {}
    /\ mu = FALSE
    /\ stack = <<>>
    /\ out = [op |-> "Resolve", t |-> CtorRet(q[Len(q)]), res |-> Ok(Inst(Len(q)))]
    /\ ev = Resolved(CtorRet(q[Len(q)]), Inst(Len(q)), 1)
    /\ ninv = Len(q)
    /\ cyc = {}
    /\ invoked = {q[Len(q)]}
    /\ nres = Len(q)
    /\ nargs = 0

\* the services of q are made by NewS1, NewS2, ... in this order: the App
\* sees the instances only, so which constructor made the k-th service makes
\* no difference to it
Canonical(q) ==
    LET svc == <<"NewS1", "NewS2", "NewS3">>
        pos == {i \in 1..Len(q) : q[i] # "NewPlain"}
    IN \A i \in pos : q[i] = svc[Cardinality({j \in pos : j <= i})]

InitApp ==
    /\ \E n \in 1..MaxInstances : \E q \in Lists(ServiceCtors, n) :
          Canonical(q) /\ Wired(q)
    /\ NewApp
    /\ NoStruct
    /\ NoCallers

NextApp ==
    \/ \E c \in CtxKinds : Start(c) /\ UNCHANGED <<cvars, svars, kvars>>
    \/ \E c \in CtxKinds : Stop(c) /\ UNCHANGED <<cvars, svars, kvars>>
    \/ Launch /\ UNCHANGED <<cvars, svars, kvars>>
    \/ Select /\ UNCHANGED <<cvars, svars, kvars>>
    \/ Wake /\ UNCHANGED <<cvars, svars, kvars>>
    \/ \E t \in spawned : TaskBegins(t) /\ UNCHANGED <<cvars, svars, kvars>>
    \/ \E t \in running, r \in {"nil", "err", "DeadlineExceeded", "Canceled"} :
          TaskReturns(t, r) /\ UNCHANGED <<cvars, svars, kvars>>
    \/ CtxDone /\ UNCHANGED <<cvars, svars, kvars>>
    \/ PassReturn /\ UNCHANGED <<cvars, svars, kvars>>
    \/ \E c \in CtxKinds : Run(c) /\ UNCHANGED <<cvars, svars, kvars>>
    \/ RunAfterStart /\ UNCHANGED <<cvars, svars, kvars>>
    \/ RunStop /\ UNCHANGED <<cvars, svars, kvars>>
    \/ RunReturn /\ UNCHANGED <<cvars, svars, kvars>>
    \/ ExtDone /\ UNCHANGED <<cvars, svars, kvars>>

\* the App over a wired Container
SpecApp == InitApp /\ [][NextApp]_vars

NextStruct ==
    \/ \E c \in CtorNames : hold.ph \in {"idle", "done"} /\ Provide(c) /\ UNCHANGED <<avars, svars, kvars>>
    \/ \E h \in Structs : ResolveToStruct(h) /\ UNCHANGED <<avars, kvars>>
    \/ FieldCall /\ UNCHANGED <<avars, kvars>>
    \/ FieldReturn /\ UNCHANGED <<avars, kvars>>
    \/ BuildParam /\ UNCHANGED <<avars, svars, kvars>>
    \/ \E ok \in BOOLEAN : BuildInvoke(ok) /\ UNCHANGED <<avars, svars, kvars>>

NextShape ==
    \/ \E c \in CtorNames \cup ShapeCtors : Provide(c) /\ UNCHANGED <<avars, svars, kvars>>
    \/ \E t \in Targets : Resolve(t) /\ UNCHANGED <<avars, svars, kvars>>
    \/ BuildParam /\ UNCHANGED <<avars, svars, kvars>>
    \/ \E s \in BOOLEAN : BuildInvoke(s) /\ UNCHANGED <<avars, svars, kvars>>

\* the Container given values of every shape
SpecShape == Init /\ [][NextShape]_vars

NextConc ==
    \/ \E k \in Callers, c \in ConcCtors : CallOp(k, "Provide", c) /\ UNCHANGED <<avars, svars>>
    \/ \E k \in Callers, t \in ConcTargets : CallOp(k, "Resolve", t) /\ UNCHANGED <<avars, svars>>
    \/ \E k \in Callers : ProvideLock(k) /\ UNCHANGED <<avars, svars>>
    \/ \E k \in Callers : ProvideRun(k) /\ UNCHANGED <<avars, svars>>
    \/ \E k \in Callers : ResolveLock(k) /\ UNCHANGED <<avars, svars>>
    \/ \E k \in Callers : ResolveParam(k) /\ UNCHANGED <<avars, svars>>
    \/ \E k \in Callers, s \in BOOLEAN : ResolveInvoke(k, s) /\ UNCHANGED <<avars, svars>>

\* the Container called from several goroutines
SpecConc == Init /\ [][NextConc]_vars

\* what an application with services that depend on each other registers
\* and asks for
DepCtors == {"NewS1", "NewD2", "NewD3", "NewA", "NewB"}
DepTargets == {"AS2", "AS3", "IA", "pA", "IB"}

NextDeps ==
    \/ \E c \in DepCtors : Provide(c) /\ UNCHANGED <<avars, svars, kvars>>
    \/ \E t \in DepTargets : Resolve(t) /\ UNCHANGED <<avars, svars, kvars>>
    \/ BuildParam /\ UNCHANGED <<avars, svars, kvars>>
    \/ \E s \in BOOLEAN : BuildInvoke(s) /\ UNCHANGED <<avars, svars, kvars>>

\* the Container building services that depend on each other
SpecDeps == Init /\ [][NextDeps]_vars

\* what an application registers and asks for while other goroutines attach
\* overrides and run the App
RaceCtors == {"NewS1", "NewD2", "NewAs"}
RaceTargets == {"AS2", "pA"}

\* the process runs: the runtime has not ended it with a fatal error
Alive == \A k \in Callers : thr[k].pc # "fatal"

\* fatal error: concurrent map read and map write
Fatal == thr' = [k \in Callers |-> [pc |-> "fatal", op |-> "", a |-> ""]]

\* p.Arg(v) from a goroutine that kept the *Provider that Provide returned:
\* the write to p.args takes no lock; when it meets the read of p.args in the
\* parameter loop of a running buildInstance(p), the write lands before or
\* after the read, or the runtime ends the process
ArgUnlocked(c, v, detected) ==
    /\ c \in Registered
    /\ \E i \in 1..Len(CtorParams(c)) : AssignableTo(ArgTypeOf(v), CtorParams(c)[i])
    /\ nargs < MaxArgCalls
    /\ nargs' = nargs + 1
    /\ IF detected
       THEN /\ stack # <<>>
            /\ Top.p = c
            /\ Top.i <= Len(CtorParams(c))
            /\ Fatal
            /\ UNCHANGED pargs
       ELSE /\ pargs' = [pargs EXCEPT ![c][ArgTypeOf(v)] = v]
            /\ UNCHANGED thr
    /\ UNCHANGED <<providers, instances, instancesList, resolvedMap, mu, stack,
                   out, ev, ninv, first, cyc, invoked, nres>>

NextRace ==
    \/ \E c \in RaceCtors : Alive /\ Provide(c) /\ UNCHANGED <<avars, svars, kvars>>
    \/ \E t \in RaceTargets : Alive /\ Resolve(t) /\ UNCHANGED <<avars, svars, kvars>>
    \/ Alive /\ BuildParam /\ UNCHANGED <<avars, svars, kvars>>
    \/ \E s \in BOOLEAN : Alive /\ BuildInvoke(s) /\ UNCHANGED <<avars, svars, kvars>>
    \/ \E c \in RaceCtors, v \in ArgValues, d \in BOOLEAN :
          Alive /\ ArgUnlocked(c, v, d) /\ UNCHANGED <<avars, svars>>
    \/ Alive /\ Start("background") /\ UNCHANGED <<cvars, svars, kvars>>
    \/ Alive /\ Stop("background") /\ UNCHANGED <<cvars, svars, kvars>>
    \/ Alive /\ Launch /\ UNCHANGED <<cvars, svars, kvars>>
    \/ Alive /\ Select /\ UNCHANGED <<cvars, svars, kvars>>
    \/ Alive /\ Wake /\ UNCHANGED <<cvars, svars, kvars>>
    \/ \E t \in spawned : Alive /\ TaskBegins(t) /\ UNCHANGED <<cvars, svars, kvars>>
    \/ \E t \in running, r \in {"nil", "err"} :
          Alive /\ TaskReturns(t, r) /\ UNCHANGED <<cvars, svars, kvars>>
    \/ Alive /\ PassReturn /\ UNCHANGED <<cvars, svars, kvars>>

\* the Container and the App used from several goroutines
SpecRace == Init /\ [][NextRace]_vars

NextAbandon ==
    \/ \E c \in CtxKinds : Run(c) /\ UNCHANGED <<cvars, svars, kvars>>
    \/ Launch /\ UNCHANGED <<cvars, svars, kvars>>
    \/ Select /\ UNCHANGED <<cvars, svars, kvars>>
    \/ Wake /\ UNCHANGED <<cvars, svars, kvars>>
    \/ \E t \in spawned : TaskBegins(t) /\ UNCHANGED <<cvars, svars, kvars>>
    \/ \E t \in running, r \in {"nil", "err", "DeadlineExceeded", "Canceled"} :
          TaskReturns(t, r) /\ UNCHANGED <<cvars, svars, kvars>>
    \/ CtxDone /\ UNCHANGED <<cvars, svars, kvars>>
    \/ PassReturn /\ UNCHANGED <<cvars, svars, kvars>>
    \/ RunAfterStartFollowed /\ UNCHANGED <<cvars, svars, kvars>>
    \/ RunStop /\ UNCHANGED <<cvars, svars, kvars>>
    \/ RunReturn /\ UNCHANGED <<cvars, svars, kvars>>
    \/ ExtDone /\ UNCHANGED <<cvars, svars, kvars>>

\* App.Run over a wired Container, with the goroutines that an expired Start
\* left behind
SpecAbandon == InitApp /\ [][NextAbandon]_vars

\* the Container filling the fields of a struct
SpecStruct == Init /\ [][NextStruct]_vars

----------------------------------------------------------------------------

TypeOK ==
    /\ providers \in Seq(AllCtors)
    /\ pargs \in [AllCtors -> [Types -> ArgValues \cup {NoVal}]]
    /\ resolvedMap \subseteq Types
    /\ mu \in BOOLEAN
    /\ ninv \in Nat
    /\ mu <=> (stack # <<>> \/ Inside # {})

----------------------------------------------------------------------------
(* Properties of the Container *)

\* C1: two successful resolutions of the same descriptor (through Resolve or
\* as a constructor parameter) yield the identical instance: a resolution of
\* a descriptor that was resolved before returns the value of its first
\* resolution and invokes no constructor.
C1_SingletonIdentity ==
    [][(ev'.k = "resolved" /\ first[ev'.t] # NoVal)
          => (ev'.val = first[ev'.t] /\ ev'.inv = 0 /\ ninv' = ninv)]_vars

\* a second Resolve of a descriptor is served from the cache
C1_Witness ==
    /\ nres = 2
    /\ out.op = "Resolve"
    /\ out.res.kind = "ok"
    /\ ev.k = "resolved"
    /\ ev.t = out.t
    /\ ev.inv = 0
    /\ out.res.val = first[out.t]
    /\ Len(instancesList) = 1

\* C2: each Provider's constructor completes successfully at most once: the
\* creation-order list never holds two instances built by the same Provider.
C2_OncePerProvider ==
    \A i, j \in 1..Len(instancesList) :
        instancesList[i].ctor = instancesList[j].ctor => i = j

\* C3: when the traversed dependency edges contain a cycle (a lookup selects
\* a Provider that is mid-construction), Resolve terminates with a cycle error
\* naming a Provider that is mid-construction, no constructor on the cycle is
\* invoked, and the recursion is never deeper than the number of Providers.
C3_CycleFails ==
    /\ Len(stack) <= Len(providers)
    /\ cyc # {} =>
          /\ out.op = "Resolve"
          /\ out.res.kind = "cycle"
          /\ out.res.name \in cyc
          /\ cyc \cap invoked = {}
          /\ stack = <<>>
          /\ ~mu

\* a transitive cycle A(B), B(A) was met
C3_Witness ==
    /\ Cardinality(cyc) = 2
    /\ out.res.kind = "cycle"
    /\ Len(out.res.ctx) = 2

\* the Providers whose produced type satisfies descriptor t
Satisfying(t) == {c \in Registered : AssignableTo(CtorRet(c), t)}

\* the parameter types of c that no override of c covers
OpenParams(c) ==
    {CtorParams(c)[i] : i \in {i \in 1..Len(CtorParams(c)) : pargs[c][CtorParams(c)[i]] = NoVal}}

\* the dependency graph of the registered Providers
DependsOn(c, d) == \E pt \in OpenParams(c) : d \in Satisfying(pt)

RECURSIVE ReachableFrom(_, _)
ReachableFrom(S, n) ==
    IF n = 0 THEN S
    ELSE ReachableFrom(S \cup {d \in Registered : \E c \in S : DependsOn(c, d)}, n - 1)

Acyclic ==
    \A c \in Registered :
        c \notin ReachableFrom({d \in Registered : DependsOn(c, d)}, Len(providers))

\* an acyclic provider set in which the root and every parameter has a
\* satisfying Provider or an override
WellFormedFor(t) ==
    /\ Satisfying(t) # {}
    /\ \A c \in Registered : \A pt \in OpenParams(c) : Satisfying(pt) # {}
    /\ Acyclic

\* C4: for an acyclic, duplicate-free provider set whose constructors do not
\* fail and whose every parameter has a satisfying Provider or an override,
\* resolving a root type succeeds whatever the registration order, and then an
\* instance exists for the root and for every parameter of every instance built.
C4_AcyclicResolves ==
    (out.op = "Resolve" /\ ~mu /\ WellFormedFor(out.t) /\ out.res.kind # "ctorErr")
        => /\ out.res.kind = "ok"
           /\ instances[out.t] # NoVal
           /\ \A i \in 1..Len(instancesList) :
                 \A pt \in OpenParams(instancesList[i].ctor) : instances[pt] # NoVal

\* C4 without the abnormal end of the lookup (for comparison)
C4_UnlessPanic ==
    (out.op = "Resolve" /\ ~mu /\ WellFormedFor(out.t)
        /\ out.res.kind \notin {"ctorErr", "panic"})
        => /\ out.res.kind = "ok"
           /\ instances[out.t] # NoVal
           /\ \A i \in 1..Len(instancesList) :
                 \A pt \in OpenParams(instancesList[i].ctor) : instances[pt] # NoVal

\* no two Providers with the same produced type
OneProviderPerType ==
    \A i, j \in 1..Len(providers) :
        CtorRet(providers[i]) = CtorRet(providers[j]) => i = j

\* C5: Provide of a constructor whose produced type is already registered
\* panics, whichever was registered first, leaves the provider collection
\* unchanged and the lock released; there is exactly one Provider per produced
\* type in every reachable state.
C5_DuplicateRejected ==
    /\ []OneProviderPerType
    /\ [][\A c \in CtorNames :
            (Provide(c) /\ (\E d \in Registered : CtorRet(d) = CtorRet(c)))
               => (out'.res.kind = "panic" /\ providers' = providers /\ ~mu')]_vars

\* a Provide was rejected as a duplicate
C5_Witness ==
    /\ out.op = "Provide"
    /\ out.res.kind = "panic"
    /\ Len(providers) = 2
    /\ ~mu

\* the argument lists assembled so far: of the instances built and of the
\* running frames
Assembled ==
    {[ctor |-> instancesList[i].ctor, args |-> instancesList[i].args] :
        i \in 1..Len(instancesList)}
    \cup {[ctor |-> stack[j].p, args |-> stack[j].args] : j \in 1..Len(stack)}

\* a parameter with an override is the next one of the running frame
OverridePending ==
    /\ stack # <<>>
    /\ Top.i <= Len(CtorParams(Top.p))
    /\ pargs[Top.p][CtorParams(Top.p)[Top.i]] # NoVal

\* C6: a parameter whose type has an override attached to the Provider gets
\* the override value verbatim and no graph resolution is attempted for it
\* (nothing is looked up, built or cached), also when a Provider for that type
\* is registered or an instance of it is cached; any other parameter gets an
\* instance resolved from the graph.
C6_OverrideWins ==
    /\ [](\A a \in Assembled : \A i \in 1..Len(a.args) :
            LET pt == CtorParams(a.ctor)[i]
            IN IF pargs[a.ctor][pt] # NoVal
               THEN a.args[i] = pargs[a.ctor][pt]
               ELSE /\ a.args[i].src = "inst"
                    /\ a.args[i] = instances[pt])
    /\ [][OverridePending =>
            /\ stack' = [stack EXCEPT
                  ![Len(stack)].i = @ + 1,
                  ![Len(stack)].args = Append(@, pargs[Top.p][CtorParams(Top.p)[Top.i]])]
            /\ UNCHANGED <<instances, instancesList, resolvedMap, ninv, first, out>>]_vars

\* NewC was built with the overriding *A although NewA is registered and an
\* instance is cached for *A
C6_Witness ==
    /\ "NewA" \in Registered
    /\ instances["pA"] # NoVal
    /\ \E i \in 1..Len(instancesList) :
          /\ instancesList[i].ctor = "NewC"
          /\ instancesList[i].args[1] = ArgVal(2)
          /\ instancesList[i].args[2].src = "inst"

\* no registered Provider produces a type that satisfies descriptor t
NoMatch(t) == Satisfying(t) = {}

\* C15: whatever Providers are registered (also Providers whose produced type
\* is an interface), Resolve of a descriptor that no Provider matches returns
\* the 'no provider found' error naming the descriptor: it does not end
\* abnormally, the slot is not assigned and nothing is cached under it.
C15_NoProviderError ==
    (out.op = "Resolve" /\ ~mu /\ NoMatch(out.t)) =>
        /\ out.res.kind = "noProvider"
        /\ out.res.name = out.t
        /\ out.res.val = NoVal
        /\ instances[out.t] = NoVal

\* Provider c is on a cycle of the dependency graph
OnGraphCycle(c) ==
    c \in ReachableFrom({d \in Registered : DependsOn(c, d)}, Len(providers))

\* C19: the in-progress set is empty whenever no Resolve is executing: every
\* construction attempt removes its produced type on success, on a dependency
\* error, on a cycle error and on a constructor error, and it holds exactly
\* the produced types of the running attempts; so a cycle that a Resolve
\* reports is a cycle of the graph.
C19_InProgressReleased ==
    /\ ~mu => resolvedMap = {}
    /\ resolvedMap = {CtorRet(stack[j].p) : j \in 1..Len(stack)}
    /\ (out.op = "Resolve" /\ out.res.kind = "cycle") => OnGraphCycle(out.res.name)

\* a second Resolve, made after constructions had been attempted, ended with
\* the error of a nested construction and left the set empty
C19_Witness ==
    /\ nres = 2
    /\ ninv >= 1
    /\ out.op = "Resolve"
    /\ out.res.kind \in {"ctorErr", "noProvider", "cycle"}
    /\ Len(out.res.ctx) >= 1
    /\ ~mu
    /\ resolvedMap = {}

\* the fields of the target of ResolveToStruct, while the loop runs and after
\* it: a field that is not settable or not yet reached is untouched, a
\* settable field that the loop has passed holds the instance of its
\* declared type, and a call that ended before the last field ended in one of
\* the given ways, with the failing field untouched
FieldsFrame(ends) ==
    hold.s # "" =>
        LET F == Fields(hold.s)
        IN /\ \A j \in 1..Len(F) :
                /\ ~F[j].set => hold.vals[j] = NoVal
                /\ j > hold.i => hold.vals[j] = NoVal
                /\ (j < hold.i /\ F[j].set) =>
                       /\ hold.vals[j] # NoVal
                       /\ hold.vals[j] = instances[F[j].type]
           /\ (hold.ph = "done" /\ hold.i > Len(F)) => sres.kind = "ok"
           /\ (hold.ph = "done" /\ hold.i <= Len(F)) =>
                  /\ sres.kind \in ends
                  /\ sres.kind = "error" => sres.field = F[hold.i].name
                  /\ hold.vals[hold.i] = NoVal
                  /\ F[hold.i].set

\* C14: ResolveToStruct resolves the settable fields in declaration order,
\* each by its declared type; at the first field whose resolution fails it
\* returns an error naming that field, the later fields are untouched and the
\* earlier ones keep their values; when no field fails every settable field
\* is assigned.
C14_FieldsInOrder == FieldsFrame({"error"})

\* C14 without the abnormal end of the lookup (for comparison)
C14_UnlessPanic == FieldsFrame({"error", "panic"})

\* one result, or two results with an error as the second
WellShaped(c) ==
    /\ CtorKind(c) = "Func"
    /\ CtorNumOut(c) = 1 \/ (CtorNumOut(c) = 2 /\ CtorOutError(c))

\* C16: Provide accepts only a function with one result, or with two results
\* of which the second is an error; every other shape is rejected with a panic
\* at registration, so no malformed constructor is registered and no Resolve
\* fails because of a constructor's shape.
C16_ShapeChecked ==
    /\ [](\A i \in 1..Len(providers) : WellShaped(providers[i]))
    /\ [][\A c \in CtorNames \cup ShapeCtors :
            (Provide(c) /\ ~WellShaped(c))
               => (out'.res.kind = "panic" /\ providers' = providers /\ ~mu')]_vars
    /\ [](~(out.op = "Resolve" /\ out.res.kind = "panic" /\ out.res.name \in AllCtors))

\* C16 for the shapes that newProvider tests: no function, no result, more
\* than two results (for comparison)
C16_CountChecked ==
    /\ [](\A i \in 1..Len(providers) : ShapeOK(providers[i]))
    /\ [][\A c \in CtorNames \cup ShapeCtors :
            (Provide(c) /\ ~ShapeOK(c))
               => (out'.res.kind = "panic" /\ providers' = providers /\ ~mu')]_vars

\* no Resolve ends in the panic of the type assertion on the second result
\* of func() (*C, bool)
C16_PanicAtResolve ==
    [](~(out.op = "Resolve" /\ out.res.kind = "panic" /\ out.res.name = "NewFlag"))

\* C17: with any number of concurrent callers at most one Provide or Resolve,
\* with its whole construction chain, is between Lock and Unlock: the lock is
\* held exactly while one caller is inside, and constructions are in progress
\* only for a Resolve that is the one call inside; no constructor is invoked
\* in a step of a caller while another caller is inside.
C17_OneCallInside ==
    /\ [](Cardinality(Inside) <= 1)
    /\ [](mu <=> Inside # {})
    /\ []((stack # <<>> \/ resolvedMap # {})
             => \E k \in Callers : Inside = {k} /\ thr[k].op = "Resolve")
    /\ [][ninv' # ninv => \E k \in Callers : Inside = {k} /\ thr[k].op = "Resolve"]_vars

\* a caller's Resolve has invoked a constructor and is still constructing,
\* while another caller waits at the lock with a Provide
C17_Witness ==
    \E k, k2 \in Callers :
        /\ thr[k].pc = "in"
        /\ thr[k].op = "Resolve"
        /\ stack # <<>>
        /\ ninv >= 1
        /\ thr[k2].pc = "lock"
        /\ thr[k2].op = "Provide"

----------------------------------------------------------------------------
(* Properties of the App *)

\* the pass callLog, startLog and stopLog belong to, once it returned
Returned(op) == appOp = "idle" /\ appOut.op = op

\* the Servicers of the creation-order list
Servicers == {i \in 1..Len(instancesList) : IsServicer(instancesList[i])}

\* the calls of the running/last pass that did not return yet
Executing(op) == {t \in running : t.op = op /\ t.pass = npass}

\* the goroutines of the running/last pass that did not call their service yet
Pending(op) == {t.inst : t \in {u \in spawned : u.op = op /\ u.pass = npass}}

\* Start invokes the services one at a time, in creation order
C7_StartHalf ==
    /\ \A a, b \in 1..Len(startLog) : a < b => startLog[a] < startLog[b]
    /\ Cardinality(Executing("Start")) <= 1
    /\ \A a \in 1..Len(startLog) : startLog[a] \in Servicers

\* Stop invokes the services in the reverse of creation order
C7_StopHalf ==
    /\ \A a, b \in 1..Len(stopLog) : a < b => stopLog[a] > stopLog[b]
    /\ \A a \in 1..Len(stopLog) : stopLog[a] \in Servicers

\* Stop launches the calls in the reverse of creation order, and invokes them
\* in that order as long as the context is not done
C7_StopLaunched ==
    /\ \A a, b \in 1..Len(callLog) :
          (appOp = "Stop" \/ Returned("Stop")) /\ a < b
              => callLog[a].inst > callLog[b].inst
    /\ ctx.err = "nil" => C7_StopHalf

\* C7: Start invokes the Start of the lifecycle-capable instances one by one
\* in creation order and Stop invokes their Stop in the reverse order: for
\* instances i created before j, Start(i) is invoked before Start(j) and
\* Stop(j) is invoked before Stop(i).
C7_StartStopOrder == C7_StartHalf /\ C7_StopHalf

C10_StartHalf ==
    (Returned("Start") /\ expiredEarly) => appOut.res = "DeadlineExceeded"

\* the deadline expired before a service's Stop completed and no bounded Stop
\* returned an error of the service: Stop returns nil
C10_StopHalf ==
    (Returned("Stop") /\ expiredEarly
        /\ \A j \in 1..Len(callLog) : callLog[j].res # "err")
        => appOut.res = "nil"

\* C10: when the deadline of the context expires before a service's Start
\* completes, Start returns DeadlineExceeded; when it expires before a
\* service's Stop completes and no service's Stop returned an ordinary error,
\* Stop returns no error.
C10_DeadlineReporting == C10_StartHalf /\ C10_StopHalf

\* C18: the App never runs two services' Start or Stop at the same time: at
\* most one of the calls it launched is executing at any moment, also after
\* a bounded call lost its race against the deadline.
C18_OneAtATime == Cardinality(running) <= 1

\* the Start and Stop calls launched and not returned, invoked or not
Launched(op) == {t \in spawned \cup running : t.op = op}

\* C11: in Run, when Start succeeded, no service's Stop is invoked before the
\* external context is cancelled; Run then ends only through a Stop pass,
\* whose context descends from a fresh context bounded by the stop timeout and
\* not from the cancelled one, and Run returns what that Stop returned.
C11_RunStopsAfterCancel ==
    /\ (runPh \in {"start", "wait", "stopOk"} /\ ext.err = "nil") =>
          (stopLog = <<>> /\ Launched("Stop") = {} /\ runPh # "stopOk")
    /\ runPh = "stopOk" =>
          /\ runErr = "nil"
          /\ ~ctx.par
          /\ ctx.timer
          /\ ctx.err \in {"nil", "DeadlineExceeded"}
    /\ (runOut.via # "none" /\ runErr = "nil") => runOut.via = "stopOk"
    /\ runOut.via = "stopOk" => (appOut.op = "Stop" /\ runOut.res = appOut.res)

\* Run returned the error of the Stop pass it made, over three services,
\* after the external context was cancelled
C11_Witness ==
    /\ runOut.via = "stopOk"
    /\ ext.err = "Canceled"
    /\ Len(startLog) = 3
    /\ Len(stopLog) = 3
    /\ runOut.res = "err"

\* C12: in Run, when Start failed, the Stop pass that follows runs under a
\* fresh bound that does not descend from the external context: the end of
\* the external context does not end the context of that pass, so no bounded
\* Stop returns because the external context is cancelled or expired.
C12_FreshBoundAfterFailure ==
    runPh = "stopFail" =>
        /\ ~ctx.par
        /\ ctx.err # "Canceled"
        /\ \A j \in 1..Len(callLog) : callLog[j].res # "Canceled"

C20_DirectStartBounded ==
    (appOp = "Start" /\ runPh = "none" /\ startTimeout > 0) =>
        (ctx.kind = "deadline" /\ ctx.timer)

\* the results of the bounded calls of the pass that are no deadline expiry
\* and not nil, as positions of callLog
OrdinaryErrors == {j \in 1..Len(callLog) : callLog[j].res \notin {"nil", "DeadlineExceeded"}}

\* C21: when the bounded Stop of some instance returns an error that is no
\* deadline expiry, Stop returns a non-nil error, the first such error in the
\* order of the pass, whatever the other instances' Stops returned.
C21_StopSurfacesError ==
    (Returned("Stop") /\ OrdinaryErrors # {}) =>
        /\ appOut.res # "nil"
        /\ \E j \in OrdinaryErrors :
              /\ \A j2 \in OrdinaryErrors : j <= j2
              /\ appOut.res = callLog[j].res

\* C21 for the passes in which no bounded Stop ran into the deadline before
\* the error (for comparison)
C21_UnlessDeadlineFirst ==
    (Returned("Stop") /\ OrdinaryErrors # {}
        /\ \A j \in 1..Len(callLog) : \A j2 \in OrdinaryErrors :
              callLog[j].res = "DeadlineExceeded" => j2 < j) =>
        /\ appOut.res # "nil"
        /\ \E j \in OrdinaryErrors :
              /\ \A j2 \in OrdinaryErrors : j <= j2
              /\ appOut.res = callLog[j].res

\* a step in which a constructor was invoked and reported an error; the step
\* cached nothing and appended nothing, and the Resolve call failed with the
\* error of that constructor; named tells whether the error has to carry the
\* name of the constructor as context
CtorFailureStep(named) ==
    (ninv' # ninv /\ stack # <<>> /\ out'.res.kind = "ctorErr") =>
        /\ out'.res.name = Top.p
        /\ ~mu'
        /\ instances' = instances
        /\ instancesList' = instancesList
        /\ named => \E j \in 1..Len(out'.res.ctx) : out'.res.ctx[j] = Top.p

\* a step in which a constructor was invoked and succeeded: its instance is
\* cached under the descriptor that was looked up and appended to the list
CtorSuccessStep ==
    (ninv' # ninv /\ stack # <<>> /\ out'.res.kind \notin {"ctorErr", "panic"}) =>
        /\ instancesList' = Append(instancesList, [ctor |-> Top.p, args |-> Top.args])
        /\ instances'[Top.t] = Inst(Len(instancesList'))
        /\ \A t \in Types \ {Top.t} : instances'[t] = instances[t]

\* C22: when a constructor reports an error, Resolve fails with that error
\* carrying the name of the failing Provider as added context, and nothing of
\* that Provider is cached or appended to the creation-order list; when the
\* constructor succeeds its instance is cached under the resolved descriptor
\* and appended to the list.
C22_CtorErrorNamed == [][CtorFailureStep(TRUE) /\ CtorSuccessStep]_vars

\* C22 without the name of the failing Provider in the error (for comparison)
C22_CtorErrorFrame == [][CtorFailureStep(FALSE) /\ CtorSuccessStep]_vars

\* the entries of the creation-order list that entry i got as arguments
\* resolved from the Container
DepsOf(i) ==
    {instancesList[i].args[k].id :
        k \in {k \in 1..Len(instancesList[i].args) : instancesList[i].args[k].src = "inst"}}

\* position of entry i in the order q of a pass, 0 when it is not in it
PosIn(q, i) ==
    IF \E a \in 1..Len(q) : q[a] = i THEN CHOOSE a \in 1..Len(q) : q[a] = i ELSE 0

\* C23: the creation-order list is append-only and bottom-up: no step removes
\* or reorders an entry, and every instance passed to a constructor as a
\* graph-resolved argument lies earlier in the list than the instance the
\* constructor produced; so Start reaches each dependency before its
\* dependents and Stop reaches each dependent before its dependencies.
C23_BottomUp ==
    /\ [][/\ Len(instancesList) <= Len(instancesList')
          /\ SubSeq(instancesList', 1, Len(instancesList)) = instancesList]_vars
    /\ [](\A i \in 1..Len(instancesList) : \A d \in DepsOf(i) : d < i)
    /\ [](\A i \in Servicers : \A d \in DepsOf(i) \cap Servicers :
             /\ PosIn(StartOrder, d) < PosIn(StartOrder, i)
             /\ PosIn(StopOrder, i) < PosIn(StopOrder, d)
             /\ PosIn(StartOrder, d) > 0
             /\ PosIn(StopOrder, i) > 0)

\* three services were built by one Resolve, the third from the first two
C23_Witness ==
    /\ Len(instancesList) = 3
    /\ instancesList[3].ctor = "NewD3"
    /\ DepsOf(3) = {1, 2}
    /\ DepsOf(2) = {1}
    /\ Servicers = {1, 2, 3}
    /\ nres = 1
    /\ ~mu

\* several registered Providers satisfy descriptor t
Several(t) == Cardinality(Satisfying(t)) >= 2

\* the first-registered of the Providers that satisfy t
FirstSatisfying(t) ==
    LET at == {i \in 1..Len(providers) : providers[i] \in Satisfying(t)}
    IN providers[CHOOSE i \in at : \A j \in at : i <= j]

\* C24: when several registered Providers satisfy a descriptor that is not
\* cached, the lookup constructs from the first-registered of them and from
\* no later one, and no error tells of the ambiguity: every construction in
\* progress for such a descriptor, and every instance cached under it, is of
\* the first-registered satisfying Provider, which the registration sequence
\* alone determines; a Resolve of it fails only as that Provider fails.
C24_FirstRegisteredWins ==
    /\ \A j \in 1..Len(stack) :
          Several(stack[j].t) => stack[j].p = FirstSatisfying(stack[j].t)
    /\ \A t \in Types :
          (Several(t) /\ instances[t] # NoVal) =>
              instancesList[instances[t].id].ctor = FirstSatisfying(t)
    /\ (out.op = "Resolve" /\ ~mu /\ Several(out.t) /\ out.res.kind \notin {"none", "ok"}) =>
          /\ out.res.kind = "noProvider" => out.res.name # out.t
          /\ \/ out.res.kind \in {"cycle", "panic"}
             \/ \E j \in 1..Len(out.res.ctx) : out.res.ctx[j] = FirstSatisfying(out.t)
             \/ out.res.name = FirstSatisfying(out.t)

\* a Resolve of a descriptor that two Providers satisfy succeeded and invoked
\* the first-registered of them only
C24_Witness ==
    /\ out.op = "Resolve"
    /\ ~mu
    /\ out.res.kind = "ok"
    /\ Several(out.t)
    /\ ninv = 1
    /\ invoked = {FirstSatisfying(out.t)}
    /\ providers[1] # FirstSatisfying(out.t)

\* a Run is executing or was the last call to return
InRun == runPh # "none" \/ runOut.via # "none"

\* no instance has its Start invoked twice or its Stop invoked twice in a Run
C25_AtMostOnce ==
    InRun =>
        /\ \A a, b \in 1..Len(startLog) : startLog[a] = startLog[b] => a = b
        /\ \A a, b \in 1..Len(stopLog) : stopLog[a] = stopLog[b] => a = b

\* C25: during one Run every managed instance moves only along unstarted,
\* started, stopped: its Start is invoked at most once, its Stop at most once,
\* and its Stop only after its Start was invoked.
C25_StartedBeforeStopped ==
    /\ C25_AtMostOnce
    /\ InRun => \A a \in 1..Len(stopLog) : \E b \in 1..Len(startLog) : startLog[b] = stopLog[a]

\* C26: a Resolve that fails part-way keeps what it built: every instance
\* whose constructor succeeded is in the creation-order list and cached under
\* the descriptor it was looked up with, whether the call it was built in
\* failed or not; no step removes an entry from the cache or the list; a
\* constructor is never invoked for a descriptor that is cached, so a later
\* Resolve reuses the instance; a failing constructor leaves no entry, so it
\* is invoked anew.
C26_PartialKept ==
    /\ [](\A i \in 1..Len(instancesList) : \E t \in Types : instances[t] = Inst(i))
    /\ [][/\ \A t \in Types : instances[t] # NoVal => instances'[t] = instances[t]
          /\ Len(instancesList) <= Len(instancesList')
          /\ SubSeq(instancesList', 1, Len(instancesList)) = instancesList]_vars
    /\ [][(ninv' # ninv /\ stack # <<>>) => instances[Top.t] = NoVal]_vars
    /\ [][(ninv' # ninv /\ out'.res.kind = "ctorErr") =>
             (instances' = instances /\ instancesList' = instancesList)]_vars

\* a Resolve failed after it had built a dependency, and the second Resolve
\* invoked the failing constructor again and no other: three invocations, one
\* instance
C26_Witness ==
    /\ nres = 2
    /\ ninv = 3
    /\ Len(instancesList) = 1
    /\ out.op = "Resolve"
    /\ out.res.kind = "ctorErr"
    /\ invoked = {out.res.name}
    /\ instancesList[1].ctor # out.res.name
    /\ ~mu

\* C27: every access to the state of the Container is serialized with
\* Resolve: no Start or Stop collects the services from the creation-order
\* list, and no Arg attaches an override, while a Resolve holds the lock.
C27_AccessSerialized ==
    /\ [][(appOp = "idle" /\ appOp' # "idle") => ~mu]_vars
    /\ [][(nargs' # nargs) => ~mu]_vars
    /\ [](Alive)

\* C28: for every managed instance, no Stop is invoked while a Start task
\* launched for the same instance is still executing, also in Run after the
\* Start of the instance lost the race against the start deadline.
C28_NoStopDuringStart ==
    \A t, u \in running : ~(t.op = "Stop" /\ u.op = "Start" /\ t.inst = u.inst)

====
